---- MODULE Spec2Model ----
(***************************************************************************)
(* A model of killer.py: the Killer Sudoku constraint-to-polynomial        *)
(* compiler (pattern generation, cage classification, assignment           *)
(* enumeration, polynomial construction) and the solution checker.         *)
(***************************************************************************)
EXTENDS Integers, Sequences, FiniteSets, TLC

VARIABLES
    pc,         \* the function / loop position the program is at
    size,       \* the size argument (largest digit; board side)
    length,     \* allseq: the length argument
    target,     \* allseq: the target argument
    togo,       \* allseq: the loop variable
    lists,      \* allseq: the local list of partial sequences
    incage,     \* make_cage: the Inputcage argument
    cage,       \* make_cage: the Cage returned (or the exception raised)
    values,     \* allocate_numbers: the list of Assignments returned
    cages,      \* create_poly: the list of Inputcages of the puzzle
    board,      \* create_poly: the list of Cages make_board returns
    done,       \* create_poly: the number of cages already added to poly
    poly,       \* create_poly: the polynomial dictionary
    grid,       \* check_solution: the board argument (list of rows)
    probs,      \* check_solution: row_probs, col_probs, sub_probs, cage_probs
    catalog,    \* generate_patterns: its local dictionary patterns, being built
    content,    \* read_puzzle: the lines of the file not yet read
    bqm,        \* add_basic_constraints: the groups constrained so far
    iter        \* add_basic_constraints: iterations done in the current loop nest

vars == <<pc, size, length, target, togo, lists, incage, cage, values,
          cages, board, done, poly, grid, probs, catalog, content, bqm, iter>>

seqVars    == <<length, target, togo, lists>>
cageVars   == <<incage, cage>>
polyVars   == <<cages, board, done, poly>>
checkVars  == <<grid, probs>>
laterVars  == <<catalog, content, bqm, iter>>

NoValue == "none"

(***************************************************************************)
(* Bounds of the model.                                                    *)
(***************************************************************************)
MaxSize == 4
    \* allseq is explored for every size in 1..MaxSize

SeqTargets == 0..(3 * MaxSize + 1)

Lengths == {2, 3}

(***************************************************************************)
(* Python helpers: range, sum, list flattening.                            *)
(***************************************************************************)
Range(a, b) == [k \in 1..(b - a) |-> a + k - 1]
    \* range(a, b) as a list; empty when b <= a

RECURSIVE SumSeq(_)
SumSeq(s) == IF s = <<>> THEN 0 ELSE s[1] + SumSeq(Tail(s))

RECURSIVE Flatten(_)
Flatten(ss) == IF ss = <<>> THEN <<>> ELSE ss[1] \o Flatten(Tail(ss))

SeqToSet(s) == {s[k] : k \in 1..Len(s)}

MinOf(s) == CHOOSE x \in SeqToSet(s) : \A y \in SeqToSet(s) : x <= y
MaxOf(s) == CHOOSE x \in SeqToSet(s) : \A y \in SeqToSet(s) : x >= y

(***************************************************************************)
(* addon (killer.py line 42): the list comprehension                       *)
(*   [s + [i] for s in lists for i in range(s[-1], size+1)                 *)
(*      if sum(s) + (togo+1)*i <= target if i + sum(s) + togo*size >= target]*)
(***************************************************************************)
addon_keep(s, i, tg, tgt, sz) ==
    /\ SumSeq(s) + (tg + 1) * i <= tgt
    /\ i + SumSeq(s) + tg * sz >= tgt

addon_one(s, tg, tgt, sz) ==
    LET cand == SelectSeq(Range(s[Len(s)], sz + 1),
                          LAMBDA i : addon_keep(s, i, tg, tgt, sz))
    IN  [k \in 1..Len(cand) |-> Append(s, cand[k])]

addon_loose(ls, tg, tgt, sz) ==
    \* addon with the lower pruning test dropped
    Flatten([k \in 1..Len(ls) |->
        LET s == ls[k]
            cand == SelectSeq(Range(s[Len(s)], sz + 1),
                       LAMBDA i : i + SumSeq(s) + tg * sz >= tgt)
        IN  [j \in 1..Len(cand) |-> Append(s, cand[j])]])

addon(ls, tg, tgt, sz) ==
    Flatten([k \in 1..Len(ls) |-> addon_one(ls[k], tg, tgt, sz)])

allseq_init(sz) == [i \in 1..sz |-> <<i>>]

allseq_filter(ls) == SelectSeq(ls, LAMBDA p : MinOf(p) < MaxOf(p))

RECURSIVE allseq_loop(_, _, _, _)
allseq_loop(ls, tg, tgt, sz) ==
    \* the for loop of allseq from togo = tg down to 1
    IF tg <= 0 THEN ls
    ELSE allseq_loop(addon(ls, tg - 1, tgt, sz), tg - 1, tgt, sz)

allseq(len, tgt, sz) ==
    allseq_filter(allseq_loop(allseq_init(sz), len - 1, tgt, sz))

(***************************************************************************)
(* Specification SpecSeq: one call of allseq, step by step.                *)
(***************************************************************************)
IdleSeq   == length = 0 /\ target = 0 /\ togo = 0 /\ lists = <<>>
IdleCage  == incage = NoValue /\ cage = NoValue
IdlePoly  == cages = <<>> /\ board = <<>> /\ done = 0 /\ poly = <<>>
IdleCheck == grid = <<>> /\ probs = NoValue
IdleLater == catalog = NoValue /\ content = <<>> /\ bqm = <<>> /\ iter = 0

InitSeq ==
    /\ pc = "allseq"
    /\ size \in 1..MaxSize
    /\ length \in Lengths
    /\ target \in SeqTargets
    /\ togo = length - 1
    /\ lists = allseq_init(size)
    /\ values = <<>>
    /\ IdleCage /\ IdlePoly /\ IdleCheck /\ IdleLater

AllseqExtend ==
    /\ pc = "allseq"
    /\ togo > 0
    /\ lists' = addon(lists, togo - 1, target, size)
    /\ togo' = togo - 1
    /\ UNCHANGED <<pc, size, length, target, values, cageVars, polyVars, checkVars, laterVars>>

AllseqReturn ==
    /\ pc = "allseq"
    /\ togo = 0
    /\ lists' = allseq_filter(lists)
    /\ pc' = "allseq_done"
    /\ UNCHANGED <<size, length, target, togo, values, cageVars, polyVars, checkVars, laterVars>>

NextSeq == AllseqExtend \/ AllseqReturn

SpecSeq == InitSeq /\ [][NextSeq]_vars

(***************************************************************************)
(* C1: allseq(L, T, n) returns exactly the non-decreasing sequences of L   *)
(* integers in 1..n that sum to T and are not all equal, each once.        *)
(***************************************************************************)
NonDecreasing(s) == \A k \in 1..(Len(s) - 1) : s[k] <= s[k + 1]

Admissible(len, tgt, sz) ==
    {s \in [1..len -> 1..sz] :
        /\ NonDecreasing(s)
        /\ SumSeq(s) = tgt
        /\ \E j, k \in 1..len : s[j] # s[k]}

C1_AllseqExact ==
    pc = "allseq_done" =>
        /\ SeqToSet(lists) = Admissible(length, target, size)
        /\ Len(lists) = Cardinality(SeqToSet(lists))

C1_Witness ==
    /\ pc = "allseq_done"
    /\ length = 3
    /\ Len(lists) >= 3
    /\ \E k \in 1..Len(lists) : lists[k][1] = lists[k][2]

(***************************************************************************)
(* Cells, cages and the pattern catalogue.                                 *)
(***************************************************************************)
BoardSizes == {4, 9}
    \* generate_patterns docstring: "In practice: 4 or 9"

MaxCoord == 2
    \* input cells have row and column in 0..MaxCoord (and inside the board)

MaxTarget == 9
    \* input cage targets range over 2..MaxTarget

CageTargets == 2..MaxTarget

Cell(r, c) == [r |-> r, c |-> c]

Inputcage(cs, tgt) == [cells |-> cs, target |-> tgt]

None == "None"

KeyError == [exception |-> "KeyError"]

Raised(x) == "exception" \in DOMAIN x

isqrt(n) == CHOOSE m \in 0..n : m * m <= n /\ (m + 1) * (m + 1) > n
    \* int(math.sqrt(n)) for the small non-negative n used here

p_single_weak(sz, tgt) ==
    \* p_single with the second comparison weakened: s[0] < s[1] <= s[2]
    SelectSeq(allseq(3, tgt, sz), LAMBDA s : s[1] < s[2] /\ s[2] <= s[3])

p_single(sz, tgt) == SelectSeq(allseq(3, tgt, sz), LAMBDA s : s[1] < s[2] /\ s[2] < s[3])

p_multi(sz, tgt) ==
    LET single == SeqToSet(p_single(sz, tgt))
    IN  SelectSeq(allseq(3, tgt, sz), LAMBDA s : ~(s \in single))

generate_patterns(sz) ==
    \* a dictionary is a function; a missing key is a value outside its domain
    [short  |-> [t \in 3..(2 * sz - 1) |-> allseq(2, t, sz)],
     single |-> [t \in {u \in 4..(3 * sz - 1) : Len(p_single(sz, u)) > 0} |-> p_single(sz, t)],
     multi  |-> [t \in 4..(3 * sz - 1) |-> p_multi(sz, t)]]

patterns_of == [sz \in BoardSizes |-> generate_patterns(sz)]
    \* create_poly builds the catalogue once per run: patterns = generate_patterns(size)

(***************************************************************************)
(* span and classify.                                                      *)
(***************************************************************************)
span_step(st, cell) ==
    [rows     |-> IF cell.r \in SeqToSet(st.rows) THEN st.rows ELSE Append(st.rows, cell.r),
     shared_r |-> IF cell.r \in SeqToSet(st.rows) THEN cell.r ELSE st.shared_r,
     cols     |-> IF cell.c \in SeqToSet(st.cols) THEN st.cols ELSE Append(st.cols, cell.c),
     shared_c |-> IF cell.c \in SeqToSet(st.cols) THEN cell.c ELSE st.shared_c]

RECURSIVE span_loop(_, _)
span_loop(st, cs) ==
    IF cs = <<>> THEN st ELSE span_loop(span_step(st, cs[1]), Tail(cs))

span(cs) ==
    span_loop([rows |-> <<>>, cols |-> <<>>, shared_r |-> -1, shared_c |-> -1], cs)

classify(cs, side) ==
    LET s == span(cs)
        rows_mod == {r \div side : r \in SeqToSet(s.rows)}
        cols_mod == {c \div side : c \in SeqToSet(s.cols)}
    IN  IF Len(s.rows) = 1 \/ Len(s.cols) = 1
        THEN [layout |-> "straight", corner |-> None]
        ELSE IF Cardinality(rows_mod) + Cardinality(cols_mod) = 2
        THEN [layout |-> "angle", corner |-> None]
        ELSE [layout |-> "span", corner |-> Cell(s.shared_r, s.shared_c)]

(***************************************************************************)
(* create_perms, generate_variable, allocate_numbers.                      *)
(***************************************************************************)
RemoveAt(s, i) == [k \in 1..(Len(s) - 1) |-> IF k < i THEN s[k] ELSE s[k + 1]]

RECURSIVE permutations(_)
permutations(s) ==
    \* itertools.permutations: tuples in lexicographic order of positions
    IF s = <<>> THEN << <<>> >>
    ELSE Flatten([i \in 1..Len(s) |->
            LET rest == permutations(RemoveAt(s, i))
            IN  [k \in 1..Len(rest) |-> <<s[i]>> \o rest[k]]])

create_perms ==
    [n \in {2, 3} |-> permutations([i \in 1..n |-> i - 1])]

generate_variable(r, c, n) == [r |-> r, c |-> c, n |-> n]
    \* the label f'{r},{c}_{n}': it determines and is determined by (r, c, n)

singles_values(cg, perms) ==
    Flatten([j \in 1..Len(cg.singles) |->
        [q \in 1..Len(perms[cg.size]) |->
            [ind \in 1..Len(cg.cells) |->
                generate_variable(cg.cells[ind].r, cg.cells[ind].c,
                    cg.singles[j][perms[cg.size][q][ind] + 1])]]])

multi_value(cg, pattern) ==
    LET corner_val == IF pattern[1] = pattern[2] THEN pattern[3] ELSE pattern[1]
        dup_val    == IF pattern[1] = pattern[2] THEN pattern[1] ELSE pattern[3]
    IN  [ind \in 1..Len(cg.cells) |->
            IF cg.cells[ind] = cg.corner
            THEN generate_variable(cg.cells[ind].r, cg.cells[ind].c, corner_val)
            ELSE generate_variable(cg.cells[ind].r, cg.cells[ind].c, dup_val)]

multis_values_perm(cg, perms) ==
    \* one Assignment per permutation of each multis pattern
    Flatten([j \in 1..Len(cg.multis) |->
        [q \in 1..Len(perms[cg.size]) |->
            [ind \in 1..Len(cg.cells) |->
                generate_variable(cg.cells[ind].r, cg.cells[ind].c,
                    cg.multis[j][perms[cg.size][q][ind] + 1])]]])

multis_values(cg, perms) ==
    [j \in 1..Len(cg.multis) |-> multi_value(cg, cg.multis[j])]

allocate_numbers_perm(cg, perms) ==
    \* allocate_numbers permuting the multis patterns like the singles
    singles_values(cg, perms) \o
        (IF cg.layout = "span" THEN multis_values_perm(cg, perms) ELSE <<>>)

allocate_numbers(cg, perms) ==
    singles_values(cg, perms) \o
        (IF cg.layout = "span" THEN multis_values(cg, perms) ELSE <<>>)

(***************************************************************************)
(* make_cage.                                                              *)
(***************************************************************************)
Cage(sz, cs, tgt, layout, singles, multis, corner) ==
    [size |-> sz, cells |-> cs, target |-> tgt, layout |-> layout,
     singles |-> singles, multis |-> multis, corner |-> corner]

make_cage(ic, patterns, side) ==
    IF Len(ic.cells) = 2
    THEN IF ic.target \in DOMAIN patterns.short
         THEN Cage(2, ic.cells, ic.target, "short", patterns.short[ic.target], <<>>, None)
         ELSE KeyError
    ELSE LET cl == classify(ic.cells, side)
         IN  IF cl.layout \in {"straight", "angle"}
             THEN IF ic.target \in DOMAIN patterns.single
                  THEN Cage(3, ic.cells, ic.target, cl.layout,
                            patterns.single[ic.target], <<>>, cl.corner)
                  ELSE KeyError
             ELSE IF ic.target \notin DOMAIN patterns.single
                  THEN KeyError
                  ELSE IF ic.target \notin DOMAIN patterns.multi
                  THEN KeyError
                  ELSE Cage(3, ic.cells, ic.target, cl.layout,
                            patterns.single[ic.target], patterns.multi[ic.target],
                            cl.corner)

(***************************************************************************)
(* Specification Spec: one input cage through make_cage and                *)
(* allocate_numbers, as create_poly runs them for each cage of a puzzle.   *)
(***************************************************************************)
Coords(sz) == {k \in 0..MaxCoord : k < sz}

Cells(sz) == {Cell(r, c) : r \in Coords(sz), c \in Coords(sz)}

CellLists(sz) ==
    {cs \in UNION {[1..n -> Cells(sz)] : n \in {2, 3}} :
        \A j, k \in 1..Len(cs) : j # k => cs[j] # cs[k]}

Init ==
    /\ pc = "make_cage"
    /\ size \in BoardSizes
    /\ \E cs \in CellLists(size), tgt \in CageTargets : incage = Inputcage(cs, tgt)
    /\ cage = NoValue
    /\ values = <<>>
    /\ IdleSeq /\ IdlePoly /\ IdleCheck /\ IdleLater

MakeCage ==
    /\ pc = "make_cage"
    /\ cage' = make_cage(incage, patterns_of[size], isqrt(size))
    /\ pc' = IF Raised(cage') THEN "KeyError" ELSE "allocate_numbers"
    /\ UNCHANGED <<size, incage, values, seqVars, polyVars, checkVars, laterVars>>

AllocateNumbers ==
    /\ pc = "allocate_numbers"
    /\ values' = allocate_numbers(cage, create_perms)
    /\ pc' = "allocated"
    /\ UNCHANGED <<size, incage, cage, seqVars, polyVars, checkVars, laterVars>>

Next == MakeCage \/ AllocateNumbers

Spec == Init /\ [][Next]_vars

(***************************************************************************)
(* Claims about make_cage, classify and allocate_numbers (under Spec).     *)
(***************************************************************************)
Digits(a) == [i \in 1..Len(a) |-> a[i].n]

Subsquare(cell, side) == <<cell.r \div side, cell.c \div side>>

Bijections(n) == {f \in [1..n -> 1..n] : \A j, k \in 1..n : j # k => f[j] # f[k]}

Built == pc \in {"allocate_numbers", "allocated"}

\* C2: every Assignment allocate_numbers returns for a cage built by
\* make_cage assigns digits that sum to the cage's target.
C2_SumsToTarget ==
    pc = "allocated" =>
        \A k \in 1..Len(values) : SumSeq(Digits(values[k])) = cage.target

\* C3: in a span cage every Assignment derived from a multis pattern gives
\* the pattern's unique value to the corner cell, a different digit to the
\* two other cells, and those two cells share no row, column or subsquare.
C3_CornerUnique ==
    (pc = "allocated" /\ cage.layout = "span") =>
        \A j \in 1..Len(cage.multis) :
            LET a    == values[Len(values) - Len(cage.multis) + j]
                pat  == cage.multis[j]
                uniq == IF pat[1] = pat[2] THEN pat[3] ELSE pat[1]
                side == isqrt(size)
            IN  \E i \in 1..3 :
                    /\ cage.cells[i] = cage.corner
                    /\ a[i].n = uniq
                    /\ \A m \in (1..3) \ {i} : a[m].n # uniq
                    /\ \A m, n \in (1..3) \ {i} : m # n =>
                          /\ cage.cells[m].r # cage.cells[n].r
                          /\ cage.cells[m].c # cage.cells[n].c
                          /\ Subsquare(cage.cells[m], side) # Subsquare(cage.cells[n], side)

\* C7: make_cage and allocate_numbers never fail on a cage of 2 or 3 cells:
\* a target without patterns gives a cage without patterns and no Assignment.
C7_NeverFails ==
    /\ pc # "KeyError"
    /\ (pc = "allocated" /\ cage.singles = <<>> /\ cage.multis = <<>>) => values = <<>>

\* C9: the corner classify returns for a span is a cell of the cage sharing
\* its row with one other cell and its column with another (classify fails
\* rather than return a corner when there is no such cell).
C9_CornerInCage ==
    (Built /\ cage.layout = "span") =>
        \E i, j, k \in 1..3 :
            /\ i # j /\ i # k /\ j # k
            /\ cage.cells[i] = cage.corner
            /\ cage.cells[j].r = cage.cells[i].r
            /\ cage.cells[k].c = cage.cells[i].c

RECURSIVE Dedup(_)
Dedup(s) ==
    IF s = <<>> THEN <<>>
    ELSE <<s[1]>> \o Dedup(SelectSeq(Tail(s), LAMBDA x : x # s[1]))

merge_tuple_dedup(tup1, tup2) == Dedup(tup1 \o tup2)
    \* merge_tuple keeping each Variable once

merge_tuple(tup1, tup2) == tup1 \o tup2

LastWrite(writes, k) ==
    CHOOSE i \in 1..Len(writes) :
        /\ writes[i][1] = k
        /\ \A j \in (i + 1)..Len(writes) : writes[j][1] # k

DictSetAll(d, writes) ==
    \* the dictionary after d[k] = v for each <<k, v>> of writes, in order:
    \* a key holds the value written to it last
    LET keys == {writes[i][1] : i \in 1..Len(writes)}
    IN  [x \in (DOMAIN d) \cup keys |->
            IF x \in keys THEN writes[LastWrite(writes, x)][2] ELSE d[x]]

value_writes(v) ==
    \* first loop body of add_to_poly: poly[(cv,)] = 1 for cv in v; poly[v] = -10
    [i \in 1..Len(v) |-> << <<v[i]>>, 1 >>] \o << <<v, -10>> >>

pair_writes_short(vals) ==
    \* the second loop with j stopping one short: range(i+1, lv-1)
    Flatten([i \in 1..(Len(vals) - 1) |->
        [d \in 1..(Len(vals) - i - 1) |-> <<merge_tuple(vals[i], vals[i + d]), 15>>]])

pair_writes(vals) ==
    \* second loop of add_to_poly: poly[merge_tuple(values[i], values[j])] = 15
    Flatten([i \in 1..(Len(vals) - 1) |->
        [d \in 1..(Len(vals) - i) |-> <<merge_tuple(vals[i], vals[i + d]), 15>>]])

add_to_poly(d, vals) ==
    DictSetAll(d, Flatten([k \in 1..Len(vals) |-> value_writes(vals[k])])
                  \o pair_writes(vals))

make_board(incages, patterns, side) ==
    [k \in 1..Len(incages) |-> make_cage(incages[k], patterns, side)]

(***************************************************************************)
(* Specification SpecPoly: create_poly on a puzzle read line by line.      *)
(* The puzzle's cages are drawn from four shapes of a 4 x 4 board (a       *)
(* 2-cell cage, a straight, an angle and a span cage), each with any       *)
(* target of CageTargets, and do not overlap.  size is the size argument   *)
(* as create_poly documents it (the board size); the value read_puzzle     *)
(* computes and main passes is modelled in SpecMain.                       *)
(***************************************************************************)
MaxCages == 2

PuzzleShapes ==
    { <<Cell(0, 0), Cell(0, 1)>>,
      <<Cell(3, 0), Cell(3, 1), Cell(3, 2)>>,
      <<Cell(0, 2), Cell(0, 3), Cell(1, 3)>>,
      <<Cell(1, 1), Cell(1, 2), Cell(2, 1)>> }

PolySizes == {4}
    \* the puzzles compiled are puzzles of the 4 x 4 board

Overlap(cs1, cs2) == SeqToSet(cs1) \cap SeqToSet(cs2) # {}

InitPoly ==
    /\ pc = "read_puzzle"
    /\ size \in PolySizes
    /\ cages = <<>>
    /\ board = <<>>
    /\ done = 0
    /\ poly = <<>>
    /\ values = <<>>
    /\ IdleSeq /\ IdleCage /\ IdleCheck /\ IdleLater

ReadLine ==
    /\ pc = "read_puzzle"
    /\ Len(cages) < MaxCages
    /\ \E cs \in PuzzleShapes, tgt \in CageTargets :
          /\ \A k \in 1..Len(cages) : ~Overlap(cs, cages[k].cells)
          /\ cages' = Append(cages, Inputcage(cs, tgt))
    /\ UNCHANGED <<pc, size, board, done, poly, values, seqVars, cageVars, checkVars, laterVars>>

MakeBoard ==
    /\ pc = "read_puzzle"
    /\ LET b == make_board(cages, patterns_of[size], isqrt(size))
       IN  IF \E k \in 1..Len(b) : Raised(b[k])
           THEN pc' = "KeyError" /\ board' = board
           ELSE pc' = "add_to_poly" /\ board' = b
    /\ UNCHANGED <<size, cages, done, poly, values, seqVars, cageVars, checkVars, laterVars>>

AddToPoly ==
    /\ pc = "add_to_poly"
    /\ done < Len(board)
    /\ values' = allocate_numbers(board[done + 1], create_perms)
    /\ poly' = add_to_poly(poly, values')
    /\ done' = done + 1
    /\ UNCHANGED <<pc, size, cages, board, seqVars, cageVars, checkVars, laterVars>>

ReturnPoly ==
    /\ pc = "add_to_poly"
    /\ done = Len(board)
    /\ pc' = "create_poly_done"
    /\ UNCHANGED <<size, cages, board, done, poly, values, seqVars, cageVars, checkVars, laterVars>>

NextPoly == ReadLine \/ MakeBoard \/ AddToPoly \/ ReturnPoly

SpecPoly == InitPoly /\ [][NextPoly]_vars

(***************************************************************************)
(* Claims about the polynomial (under SpecPoly).                           *)
(***************************************************************************)
Reverse(s) == [k \in 1..Len(s) |-> s[Len(s) + 1 - k]]

RECURSIVE compile(_, _)
compile(d, valueLists) ==
    \* the loop of create_poly over the cages' Assignment lists
    IF valueLists = <<>> THEN d
    ELSE compile(add_to_poly(d, valueLists[1]), Tail(valueLists))

AllValues == [k \in 1..Len(board) |-> allocate_numbers(board[k], create_perms)]

KeyBag(key) ==
    [v \in SeqToSet(key) |-> Cardinality({i \in 1..Len(key) : key[i] = v})]

Terms(d) == {<<KeyBag(key), d[key]>> : key \in DOMAIN d}
    \* the polynomial's terms with each key taken as a multiset of Variables

Swap(s, i, j) == [s EXCEPT ![i] = s[j], ![j] = s[i]]

Rotate(s) == IF s = <<>> THEN s ELSE Append(Tail(s), s[1])

Reorderings(s) ==
    \* the list reversed, rotated by one, and with its first two exchanged
    {Reverse(s), Rotate(s)} \cup (IF Len(s) >= 2 THEN {Swap(s, 1, 2)} ELSE {})

C5_Accumulates ==
    (pc \in {"add_to_poly", "create_poly_done"} /\ done >= 1) =>
        \A k \in 1..Len(values) : \A i \in 1..Len(values[k]) :
            poly[<<values[k][i]>>] =
                Cardinality({j \in 1..Len(values) :
                                values[k][i] \in SeqToSet(values[j])})

KeySizeOk(key, coeff, sizes) ==
    \/ Len(key) = 1 /\ coeff = 1
    \/ Len(key) \in sizes /\ coeff = -10
    \/ Len(key) \in {2 * n : n \in sizes} /\ coeff = 15

Digit(d) ==
    CASE d = 0 -> "0" [] d = 1 -> "1" [] d = 2 -> "2" [] d = 3 -> "3"
      [] d = 4 -> "4" [] d = 5 -> "5" [] d = 6 -> "6" [] d = 7 -> "7"
      [] d = 8 -> "8" [] d = 9 -> "9"

RECURSIVE str(_)
str(n) ==
    \* str() of an integer
    IF n < 0 THEN "-" \o str(0 - n)
    ELSE IF n < 10 THEN Digit(n)
    ELSE str(n \div 10) \o Digit(n % 10)

RECURSIVE join(_, _)
join(sep, ss) ==
    IF ss = <<>> THEN ""
    ELSE IF Len(ss) = 1 THEN ss[1]
    ELSE ss[1] \o sep \o join(sep, Tail(ss))

cell_desc(cell) == str(cell.r) \o "," \o str(cell.c)

cage_desc(cg) ==
    "Cells " \o join(" ", [k \in 1..Len(cg.cells) |-> cell_desc(cg.cells[k])])
        \o " should sum to " \o str(cg.target)

cage_total(cg, b) ==
    SumSeq([k \in 1..Len(cg.cells) |-> b[cg.cells[k].r + 1][cg.cells[k].c + 1]])

check_cage_ge(cg, b) ==
    \* check_cage accepting a total that reaches the target
    LET total == cage_total(cg, b)
        ok    == total >= cg.target
    IN  [ok |-> ok,
         message |-> IF ok THEN None
                     ELSE cage_desc(cg) \o " but actual total is " \o str(total)]

check_cage(cg, b) ==
    LET total == cage_total(cg, b)
        ok    == total = cg.target
    IN  [ok |-> ok,
         message |-> IF ok THEN None
                     ELSE cage_desc(cg) \o " but actual total is " \o str(total)]

check_solution(b, cgs) ==
    LET n == Len(b)
        m == isqrt(n)
        unique_digits == 1..n
        cols == [j \in 1..n |-> [i \in 1..n |-> b[i][j]]]
        subsquare_coords == [k \in 1..(m * m) |-> <<(k - 1) \div m, (k - 1) % m>>]
        subs == [k \in 1..(m * m) |->
                    LET r == (k - 1) \div m
                        c == (k - 1) % m
                    IN  [q \in 1..Len(subsquare_coords) |->
                            b[subsquare_coords[q][1] + r * m + 1]
                             [subsquare_coords[q][2] + c * m + 1]]]
        checks == [k \in 1..Len(cgs) |-> check_cage(cgs[k], b)]
        failed == SelectSeq(checks, LAMBDA x : ~x.ok)
    IN  [row_probs  |-> SelectSeq(b, LAMBDA row : SeqToSet(row) # unique_digits),
         col_probs  |-> SelectSeq(cols, LAMBDA col : SeqToSet(col) # unique_digits),
         sub_probs  |-> SelectSeq(subs, LAMBDA sub : SeqToSet(sub) # unique_digits),
         cage_probs |-> [k \in 1..Len(failed) |-> failed[k].message]]

(***************************************************************************)
(* Specification SpecCheck: check_solution on the board create_board       *)
(* returns.  The board starts as a solved 4 x 4 (or 1 x 1) puzzle and the  *)
(* cages as that puzzle's cages; up to MaxDiff cells and cage targets are  *)
(* then changed to any other value before check_solution runs.             *)
(***************************************************************************)
MaxDiff == 1

CheckSizes == {1, 4}

SolvedGrid(n) ==
    IF n = 1 THEN << <<1>> >>
    ELSE << <<1, 2, 3, 4>>,
            <<3, 4, 1, 2>>,
            <<2, 1, 4, 3>>,
            <<4, 3, 2, 1>> >>

SolvedCages(n) ==
    IF n = 1 THEN <<>>
    ELSE << Inputcage(<<Cell(0, 0), Cell(0, 1)>>, 3),
            Inputcage(<<Cell(0, 2), Cell(0, 3), Cell(1, 3)>>, 9),
            Inputcage(<<Cell(1, 0), Cell(2, 0)>>, 5),
            Inputcage(<<Cell(1, 1), Cell(1, 2), Cell(2, 1)>>, 6),
            Inputcage(<<Cell(3, 0), Cell(3, 1), Cell(3, 2)>>, 9),
            Inputcage(<<Cell(2, 2), Cell(2, 3), Cell(3, 3)>>, 8) >>

DiffCount(g, cgs) ==
    Cardinality({ij \in (1..size) \X (1..size) :
                    g[ij[1]][ij[2]] # SolvedGrid(size)[ij[1]][ij[2]]})
    + Cardinality({k \in 1..Len(cgs) : cgs[k] # SolvedCages(size)[k]})

Diffs == DiffCount(grid, cages)

InitCheck ==
    /\ pc = "create_board"
    /\ size \in CheckSizes
    /\ grid = SolvedGrid(size)
    /\ cages = SolvedCages(size)
    /\ probs = NoValue
    /\ board = <<>> /\ done = 0 /\ poly = <<>>
    /\ values = <<>>
    /\ IdleSeq /\ IdleCage /\ IdleLater

SetCell ==
    /\ pc = "create_board"
    /\ \E i, j \in 1..size, v \in 0..size :
          /\ grid' = [grid EXCEPT ![i][j] = v]
          /\ grid' # grid
    /\ DiffCount(grid', cages) <= MaxDiff
    /\ UNCHANGED <<pc, size, cages, probs, board, done, poly, values, seqVars, cageVars, laterVars>>

SetTarget ==
    /\ pc = "create_board"
    /\ \E k \in 1..Len(cages), t \in CageTargets :
          /\ cages' = [cages EXCEPT ![k].target = t]
          /\ cages' # cages
    /\ DiffCount(grid, cages') <= MaxDiff
    /\ UNCHANGED <<pc, size, grid, probs, board, done, poly, values, seqVars, cageVars, laterVars>>

CheckSolution ==
    /\ pc = "create_board"
    /\ probs' = check_solution(grid, cages)
    /\ pc' = "checked"
    /\ UNCHANGED <<size, grid, cages, board, done, poly, values, seqVars, cageVars, laterVars>>

NextCheck == SetCell \/ SetTarget \/ CheckSolution

SpecCheck == InitCheck /\ [][NextCheck]_vars

(***************************************************************************)
(* C8: check_solution's report is exact.                                   *)
(***************************************************************************)
Sorted(S) == [k \in 1..Cardinality(S) |->
                 CHOOSE x \in S : Cardinality({y \in S : y < x}) = k - 1]

Side == CHOOSE m \in 0..size : m * m = size

BadRows == {i \in 1..size : {grid[i][j] : j \in 1..size} # 1..size}

BadCols == {j \in 1..size : {grid[i][j] : i \in 1..size} # 1..size}

BlockCells(q) ==
    \* the cells of block number q (blocks numbered row by row from 0)
    {ij \in (1..size) \X (1..size) :
        ((ij[1] - 1) \div Side) * Side + ((ij[2] - 1) \div Side) = q}

BadBlocks == {q \in 0..(size - 1) :
                 {grid[ij[1]][ij[2]] : ij \in BlockCells(q)} # 1..size}

BlockList(q) ==
    \* the digits of block q read row by row
    LET order == Sorted({(ij[1] - 1) * size + (ij[2] - 1) : ij \in BlockCells(q)})
    IN  [k \in 1..Len(order) |-> grid[(order[k] \div size) + 1][(order[k] % size) + 1]]

CageSum(k) ==
    LET cs == cages[k].cells
    IN  SumSeq([i \in 1..Len(cs) |-> grid[cs[i].r + 1][cs[i].c + 1]])

BadCages == {k \in 1..Len(cages) : CageSum(k) # cages[k].target}

\* C8: the row, column and subsquare lists hold exactly the rows, columns
\* and blocks whose digit set differs from 1..n, and the cage list exactly
\* one message (cells, target, actual sum) per cage whose cells do not sum
\* to its target; a satisfying board gives four empty lists.
C8_ReportExact ==
    pc = "checked" =>
        /\ probs.row_probs = [k \in 1..Cardinality(BadRows) |-> grid[Sorted(BadRows)[k]]]
        /\ probs.col_probs = [k \in 1..Cardinality(BadCols) |->
                                 [i \in 1..size |-> grid[i][Sorted(BadCols)[k]]]]
        /\ probs.sub_probs = [k \in 1..Cardinality(BadBlocks) |->
                                 BlockList(Sorted(BadBlocks)[k])]
        /\ probs.cage_probs = [k \in 1..Cardinality(BadCages) |->
                                 LET cg == cages[Sorted(BadCages)[k]]
                                 IN  cage_desc(cg) \o " but actual total is "
                                        \o str(CageSum(Sorted(BadCages)[k]))]
        /\ (grid = SolvedGrid(size) /\ cages = SolvedCages(size)) =>
              probs = [row_probs |-> <<>>, col_probs |-> <<>>,
                       sub_probs |-> <<>>, cage_probs |-> <<>>]
        /\ (grid = SolvedGrid(size) /\ Diffs = 1) => Len(probs.cage_probs) = 1

C8_Witness ==
    /\ pc = "checked"
    /\ size = 4
    /\ probs.row_probs = << <<2, 2, 3, 4>> >>
    /\ Len(probs.col_probs) = 1
    /\ Len(probs.sub_probs) = 1
    /\ Len(probs.cage_probs) = 1
    /\ probs.cage_probs[1] = "Cells 0,0 0,1 should sum to 3 but actual total is 4"

(***************************************************************************)
(* add_basic_constraints.  The BinaryQuadraticModel is modelled by the     *)
(* list of the groups of Variables passed to combinations(group, 1) and    *)
(* added with bqm.update, in the order of the calls; the terms that        *)
(* dimod.make_quadratic derives from poly are not part of it.              *)
(***************************************************************************)
MaxRoot == 3
    \* add_basic_constraints is explored for the sizes 1, 4, .., MaxRoot^2

BasicSizes == {k * k : k \in 1..MaxRoot}

NameError == [exception |-> "NameError"]

digits(sz) == Range(1, sz + 1)

node_digits(row, col, sz) ==
    [k \in 1..sz |-> generate_variable(row, col, digits(sz)[k])]

row_nodes(row, digit, sz) ==
    [k \in 1..sz |-> generate_variable(row, Range(0, sz)[k], digit)]

col_nodes(col, digit, sz) ==
    [k \in 1..sz |-> generate_variable(Range(0, sz)[k], col, digit)]

subsquare_indices == NameError
    \* the name is bound nowhere in killer.py: evaluating it raises NameError

get_label == NameError
    \* the name is bound nowhere in killer.py: evaluating it raises NameError

subsquare(r, c, digit, sz) ==
    \* the comprehension evaluates its iterable subsquare_indices first
    IF Raised(subsquare_indices) THEN subsquare_indices ELSE get_label

add_basic_constraints(sz) ==
    \* the whole call: the groups of the three completed loop nests, then the
    \* first evaluation of the subsquare comprehension (r = 0, c = 0, digit = 1);
    \* the value returned is the record [bqm |-> groups], the exception raised
    \* the record NameError
    LET cell_groups == [k \in 1..(sz * sz) |->
                           node_digits((k - 1) \div sz, (k - 1) % sz, sz)]
        row_groups  == [k \in 1..(sz * sz) |->
                           row_nodes((k - 1) \div sz, digits(sz)[((k - 1) % sz) + 1], sz)]
        col_groups  == [k \in 1..(sz * sz) |->
                           col_nodes((k - 1) \div sz, digits(sz)[((k - 1) % sz) + 1], sz)]
    IN  IF sz > 0 /\ Raised(subsquare(0, 0, 1, sz))
        THEN subsquare(0, 0, 1, sz)
        ELSE [bqm |-> cell_groups \o row_groups \o col_groups]

(***************************************************************************)
(* Specification SpecBasic: one call of add_basic_constraints, one         *)
(* iteration of its loops at a time.                                       *)
(***************************************************************************)
InitBasic ==
    /\ pc = "node_digits"
    /\ size \in BasicSizes
    /\ bqm = <<>>
    /\ iter = 0
    /\ catalog = NoValue /\ content = <<>>
    /\ values = <<>>
    /\ IdleSeq /\ IdleCage /\ IdlePoly /\ IdleCheck

BasicNodeDigits ==
    \* for row in range(size): for col in range(size)
    /\ pc = "node_digits"
    /\ bqm' = Append(bqm, node_digits(iter \div size, iter % size, size))
    /\ IF iter + 1 < size * size
       THEN iter' = iter + 1 /\ pc' = pc
       ELSE iter' = 0 /\ pc' = "row_nodes"
    /\ UNCHANGED <<size, values, catalog, content, seqVars, cageVars, polyVars, checkVars>>

BasicRowNodes ==
    \* for row in range(size): for digit in digits
    /\ pc = "row_nodes"
    /\ bqm' = Append(bqm, row_nodes(iter \div size, digits(size)[(iter % size) + 1], size))
    /\ IF iter + 1 < size * size
       THEN iter' = iter + 1 /\ pc' = pc
       ELSE iter' = 0 /\ pc' = "col_nodes"
    /\ UNCHANGED <<size, values, catalog, content, seqVars, cageVars, polyVars, checkVars>>

BasicColNodes ==
    \* for col in range(size): for digit in digits
    /\ pc = "col_nodes"
    /\ bqm' = Append(bqm, col_nodes(iter \div size, digits(size)[(iter % size) + 1], size))
    /\ IF iter + 1 < size * size
       THEN iter' = iter + 1 /\ pc' = pc
       ELSE iter' = 0 /\ pc' = "subsquare"
    /\ UNCHANGED <<size, values, catalog, content, seqVars, cageVars, polyVars, checkVars>>

BasicSubsquare ==
    \* for r in range(size): for c in range(size): for digit in digits
    /\ pc = "subsquare"
    /\ LET sub == subsquare(iter \div (size * size), (iter \div size) % size,
                            digits(size)[(iter % size) + 1], size)
       IN  IF Raised(sub)
           THEN pc' = sub.exception /\ bqm' = bqm /\ iter' = iter
           ELSE /\ bqm' = Append(bqm, sub)
                /\ IF iter + 1 < size * size * size
                   THEN iter' = iter + 1 /\ pc' = pc
                   ELSE iter' = 0 /\ pc' = "add_basic_constraints_done"
    /\ UNCHANGED <<size, values, catalog, content, seqVars, cageVars, polyVars, checkVars>>

NextBasic == BasicNodeDigits \/ BasicRowNodes \/ BasicColNodes \/ BasicSubsquare

SpecBasic == InitBasic /\ [][NextBasic]_vars

(***************************************************************************)
(* C11: for every board size n with an integer square root,                *)
(* add_basic_constraints completes, and the groups it constrains are       *)
(* exactly: the n digits of each of the n^2 cells; for each digit the n    *)
(* cells of each row, of each column, and of each sqrt(n) x sqrt(n)        *)
(* subsquare.                                                              *)
(***************************************************************************)
BoardCells(n) == {Cell(r, c) : r \in 0..(n - 1), c \in 0..(n - 1)}

CellGroups(n) ==
    {{generate_variable(cell.r, cell.c, d) : d \in 1..n} : cell \in BoardCells(n)}

RowGroups(n) ==
    {{generate_variable(r, c, d) : c \in 0..(n - 1)} : r \in 0..(n - 1), d \in 1..n}

ColGroups(n) ==
    {{generate_variable(r, c, d) : r \in 0..(n - 1)} : c \in 0..(n - 1), d \in 1..n}

SubsquareGroups(n) ==
    {{generate_variable(cell.r, cell.c, d) :
          cell \in {x \in BoardCells(n) : Subsquare(x, isqrt(n)) = q}} :
       q \in {Subsquare(x, isqrt(n)) : x \in BoardCells(n)}, d \in 1..n}

BasicGroups(n) == CellGroups(n) \cup RowGroups(n) \cup ColGroups(n) \cup SubsquareGroups(n)

C11_BasicConstraints ==
    /\ pc # "NameError"
    /\ pc = "add_basic_constraints_done" =>
          {SeqToSet(bqm[k]) : k \in 1..Len(bqm)} = BasicGroups(size)

(***************************************************************************)
(* Specification SpecPatterns: one call of generate_patterns, one          *)
(* iteration of its two loops at a time.  target is the loop variable,     *)
(* catalog the local dictionary patterns.                                  *)
(***************************************************************************)
MaxDigit == 9
    \* generate_patterns is explored for every size in 1..MaxDigit

InitPatterns ==
    /\ pc = "short"
    /\ size \in 1..MaxDigit
    /\ catalog = [short |-> <<>>, single |-> <<>>, multi |-> <<>>]
    /\ target = 3
    /\ length = 0 /\ togo = 0 /\ lists = <<>>
    /\ content = <<>> /\ bqm = <<>> /\ iter = 0
    /\ values = <<>>
    /\ IdleCage /\ IdlePoly /\ IdleCheck

PatternsShort ==
    \* for target in range(3, 2*size): patterns['short'][target] = allseq(2, ...)
    /\ pc = "short"
    /\ target < 2 * size
    /\ catalog' = [catalog EXCEPT
                     !.short = DictSetAll(@, << <<target, allseq(2, target, size)>> >>)]
    /\ target' = target + 1
    /\ UNCHANGED <<pc, size, length, togo, lists, values, content, bqm, iter,
                   cageVars, polyVars, checkVars>>

PatternsShortEnd ==
    \* range(3, 2*size) is exhausted: the second loop starts at target 4
    /\ pc = "short"
    /\ target >= 2 * size
    /\ pc' = "triple"
    /\ target' = 4
    /\ UNCHANGED <<size, catalog, length, togo, lists, values, content, bqm, iter,
                   cageVars, polyVars, checkVars>>

PatternsTriple ==
    \* for target in range(4, 3*size): the 'multi' entry is always stored,
    \* the 'single' entry only if p_single is not empty
    /\ pc = "triple"
    /\ target < 3 * size
    /\ catalog' = [catalog EXCEPT
                     !.multi  = DictSetAll(@, << <<target, p_multi(size, target)>> >>),
                     !.single = IF Len(p_single(size, target)) > 0
                                THEN DictSetAll(@, << <<target, p_single(size, target)>> >>)
                                ELSE @]
    /\ target' = target + 1
    /\ UNCHANGED <<pc, size, length, togo, lists, values, content, bqm, iter,
                   cageVars, polyVars, checkVars>>

PatternsReturn ==
    /\ pc = "triple"
    /\ target >= 3 * size
    /\ pc' = "generate_patterns_done"
    /\ UNCHANGED <<size, catalog, target, length, togo, lists, values, content, bqm, iter,
                   cageVars, polyVars, checkVars>>

NextPatterns == PatternsShort \/ PatternsShortEnd \/ PatternsTriple \/ PatternsReturn

SpecPatterns == InitPatterns /\ [][NextPatterns]_vars

(***************************************************************************)
(* C12: in the catalog generate_patterns(n) returns, for every 3-cell      *)
(* target a length-3 pattern is in the 'single' class iff it is strictly   *)
(* increasing and in the 'multi' class iff exactly one value is            *)
(* duplicated; no pattern is in both classes, every pattern is in one of   *)
(* them, and the classes hold nothing but patterns of that target.         *)
(***************************************************************************)
InClass(class, tgt, s) ==
    /\ tgt \in DOMAIN catalog[class]
    /\ s \in SeqToSet(catalog[class][tgt])

StrictlyIncreasing(s) == \A k \in 1..(Len(s) - 1) : s[k] < s[k + 1]

OneDuplicated(s) == Cardinality(SeqToSet(s)) = Len(s) - 1

C12_SingleMultiClasses ==
    pc = "generate_patterns_done" =>
        /\ \A tgt \in 4..(3 * size - 1) : \A s \in Admissible(3, tgt, size) :
              /\ InClass("single", tgt, s) <=> StrictlyIncreasing(s)
              /\ InClass("multi", tgt, s) <=> OneDuplicated(s)
              /\ ~(InClass("single", tgt, s) /\ InClass("multi", tgt, s))
              /\ InClass("single", tgt, s) \/ InClass("multi", tgt, s)
        /\ \A class \in {"single", "multi"} : \A tgt \in DOMAIN catalog[class] :
              /\ tgt \in 4..(3 * size - 1)
              /\ SeqToSet(catalog[class][tgt]) \subseteq Admissible(3, tgt, size)

C12_Witness ==
    /\ pc = "generate_patterns_done"
    /\ size = 4
    /\ catalog.single[6] = << <<1, 2, 3>> >>
    /\ catalog.multi[6] = << <<1, 1, 4>> >>
    /\ catalog.multi[9] = << <<1, 4, 4>> >>
    /\ 4 \notin DOMAIN catalog.single
    /\ catalog = generate_patterns(size)

(***************************************************************************)
(* read_puzzle, parse_line and main.  A line of the puzzle file is         *)
(* modelled by its parts (line.split(' ')), each part by the integers      *)
(* between its commas: "0,0 0,1 3" is << <<0, 0>>, <<0, 1>>, <<3>> >>.     *)
(***************************************************************************)
cell_from_coords(coords) ==
    IF Len(coords) = 2 THEN Cell(coords[1], coords[2]) ELSE None

parse_line(line) ==
    Inputcage([k \in 1..(Len(line) - 1) |-> cell_from_coords(line[k])],
              line[Len(line)][1])

RECURSIVE create_poly_loop(_, _)
create_poly_loop(d, brd) ==
    \* for cage in board: add_to_poly(poly, allocate_numbers(cage, perms))
    IF brd = <<>> THEN d
    ELSE create_poly_loop(add_to_poly(d, allocate_numbers(brd[1], create_perms)),
                          Tail(brd))

(***************************************************************************)
(* The puzzle files main is run on: two complete coverings of the 4 x 4    *)
(* board (the six cages of SolvedCages, and eight horizontal 2-cell        *)
(* cages), each with one cage's target taken anywhere in CageTargets.      *)
(***************************************************************************)
Dominoes ==
    << Inputcage(<<Cell(0, 0), Cell(0, 1)>>, 3), Inputcage(<<Cell(0, 2), Cell(0, 3)>>, 7),
       Inputcage(<<Cell(1, 0), Cell(1, 1)>>, 7), Inputcage(<<Cell(1, 2), Cell(1, 3)>>, 3),
       Inputcage(<<Cell(2, 0), Cell(2, 1)>>, 3), Inputcage(<<Cell(2, 2), Cell(2, 3)>>, 7),
       Inputcage(<<Cell(3, 0), Cell(3, 1)>>, 7), Inputcage(<<Cell(3, 2), Cell(3, 3)>>, 3) >>

MainCoverings == {SolvedCages(4), Dominoes}

MainPuzzles ==
    UNION {{[cgs EXCEPT ![k].target = t] : k \in 1..Len(cgs), t \in CageTargets} :
           cgs \in MainCoverings}

line_of(ic) ==
    [k \in 1..Len(ic.cells) |-> <<ic.cells[k].r, ic.cells[k].c>>] \o << <<ic.target>> >>

MainFiles == {[k \in 1..Len(p) |-> line_of(p[k])] : p \in MainPuzzles}

CellCount(cgs) == SumSeq([k \in 1..Len(cgs) |-> Len(cgs[k].cells)])

ReadSizes == {CellCount(p) : p \in MainCoverings}
    \* the values read_puzzle returns as size for these files

patterns_read == [sz \in ReadSizes |-> generate_patterns(sz)]
    \* create_poly builds the catalogue once per run: patterns = generate_patterns(size)

create_poly(cgs, sz) ==
    \* the value returned is the record [poly |-> dictionary], the exception
    \* make_board lets through the record KeyError
    LET side == isqrt(sz)
        brd  == make_board(cgs, patterns_read[sz], side)
    IN  IF \E k \in 1..Len(brd) : Raised(brd[k])
        THEN KeyError
        ELSE [poly |-> create_poly_loop(<<>>, brd)]

(***************************************************************************)
(* Specification SpecMain: main on a puzzle file.  read_puzzle runs one    *)
(* line at a time; create_poly and add_basic_constraints are one step      *)
(* each.  An exception ends the run.                                       *)
(***************************************************************************)
InitMain ==
    /\ pc = "read_puzzle"
    /\ content \in MainFiles
    /\ cages = <<>>
    /\ size = 0
    /\ board = <<>> /\ done = 0 /\ poly = <<>>
    /\ values = <<>>
    /\ catalog = NoValue /\ bqm = <<>> /\ iter = 0
    /\ IdleSeq /\ IdleCage /\ IdleCheck

ReadPuzzleLine ==
    \* for line in content: inputcage = parse_line(line);
    \*    size += len(inputcage.cells); cages.append(inputcage)
    /\ pc = "read_puzzle"
    /\ content # <<>>
    /\ LET inputcage == parse_line(Head(content))
       IN  /\ size' = size + Len(inputcage.cells)
           /\ cages' = Append(cages, inputcage)
    /\ content' = Tail(content)
    /\ UNCHANGED <<pc, board, done, poly, values, catalog, bqm, iter,
                   seqVars, cageVars, checkVars>>

ReadPuzzleReturn ==
    \* return cages, size; main goes on to create_poly(cages, size)
    /\ pc = "read_puzzle"
    /\ content = <<>>
    /\ pc' = "create_poly"
    /\ UNCHANGED <<size, content, cages, board, done, poly, values, catalog, bqm, iter,
                   seqVars, cageVars, checkVars>>

MainCreatePoly ==
    \* poly = create_poly(cages, size)
    /\ pc = "create_poly"
    /\ LET p == create_poly(cages, size)
       IN  IF Raised(p)
           THEN pc' = p.exception /\ poly' = poly
           ELSE pc' = "add_basic_constraints" /\ poly' = p.poly
    /\ UNCHANGED <<size, content, cages, board, done, values, catalog, bqm, iter,
                   seqVars, cageVars, checkVars>>

MainAddBasicConstraints ==
    \* bqm = add_basic_constraints(poly, size)
    /\ pc = "add_basic_constraints"
    /\ LET b == add_basic_constraints(size)
       IN  IF Raised(b)
           THEN pc' = b.exception /\ bqm' = bqm
           ELSE pc' = "solve" /\ bqm' = b.bqm
    /\ UNCHANGED <<size, content, cages, board, done, poly, values, catalog, iter,
                   seqVars, cageVars, checkVars>>

NextMain == ReadPuzzleLine \/ ReadPuzzleReturn \/ MainCreatePoly \/ MainAddBasicConstraints

SpecMain == InitMain /\ [][NextMain]_vars

(***************************************************************************)
(* C13: when main runs on a puzzle whose cages cover every cell of an      *)
(* n x n board, the size that read_puzzle returns, and that main passes    *)
(* on to create_poly and add_basic_constraints, is the side length n: the  *)
(* digits of the polynomial's Variables are in 1..n.                       *)
(***************************************************************************)
BoardSide(cgs) ==
    \* the side of the board the cages cover: its largest coordinate plus one
    1 + MaxOf(Flatten([k \in 1..Len(cgs) |->
                 Flatten([j \in 1..Len(cgs[k].cells) |->
                     <<cgs[k].cells[j].r, cgs[k].cells[j].c>>])]))

Covers(cgs, n) ==
    UNION {SeqToSet(cgs[k].cells) : k \in 1..Len(cgs)} = BoardCells(n)

PolyDigits == {key[1].n : key \in {k \in DOMAIN poly : Len(k) = 1}}
    \* the digits of the Variables of the polynomial

C13_SizeIsSide ==
    (pc \in {"create_poly", "add_basic_constraints", "KeyError", "NameError"}
        /\ Covers(cages, BoardSide(cages))) =>
        /\ size = BoardSide(cages)
        /\ PolyDigits \subseteq 1..BoardSide(cages)

====
